---------------------------- MODULE Spec2Model ----------------------------
(***************************************************************************)
(* Model of 0x02-redis_basic/web.py: the track_get_page decorator, which   *)
(* counts every request for a URL in Redis and caches the fetched page     *)
(* for CACHE_EXPIRATION seconds under the MD5 digest of the URL.           *)
(*                                                                         *)
(* Conventions.  A Python str is a sequence of code points, a bytes value  *)
(* a sequence of integers 0..255.  An optional value is None (the empty    *)
(* sequence) or Some(x) (the one-element sequence holding x).              *)
(***************************************************************************)
EXTENDS Integers, Sequences, FiniteSets, TLC

\* Program constant (web.py line 12).
CACHE_EXPIRATION == 10

\* Bounds of the model.
NumCallers == 2      \* concurrent callers of get_page
MaxCalls == 2        \* calls of wrapper that get past their INCR, in total
TickSeconds == 5     \* seconds between two observations of the Redis clock

Callers == 1..NumCallers

\* The URLs requested: "a" and "é" (the second has a two-byte UTF-8 form).
URLs == { <<97>>, <<233>> }

\* Answers a server may give to requests.get: 200 with the body "", 200 with the
\* body "hi", 404 with the body "é".
Responses ==
  { [ status_code |-> 200, text |-> << >> ],
    [ status_code |-> 200, text |-> << 104, 105 >> ],
    [ status_code |-> 404, text |-> << 233 >> ] }

None == <<>>
Some(x) == <<x>>

VARIABLES
  redis_client,  \* the Redis keyspace: key (bytes) -> [val: bytes, ttl: seconds left, -1 = no expiry]
  pc,            \* per caller: position in wrapper
  url,           \* per caller: argument of the current call
  response,      \* per caller: wrapper's local `response` (None before the fetch)
  ret,           \* per caller: value the call returned (None while it has not)
  exc,           \* per caller: exception the call raised (None while it has not)
  status,        \* history: HTTP status of the response get_page received in this call (0 = none)
  invoked,       \* history: invocations of fn made by the current call
  fetched,       \* history: per URL, invocations of fn so far
  finished,      \* history: per URL, calls that ended after their INCR
  produced,      \* history: per URL, the contents fn has returned for it so far
  age            \* history: per URL, seconds since the last SETEX of its cache key (-1 = never; capped)

vars == << redis_client, pc, url, response, ret, exc, status, invoked, fetched, finished, produced, age >>

-----------------------------------------------------------------------------
(* str.encode() / bytes.decode("utf-8")                                    *)

EncodeChar(c) ==
  IF c < 128 THEN << c >>
  ELSE IF c < 2048 THEN << 192 + (c \div 64), 128 + (c % 64) >>
  ELSE IF c < 65536 THEN << 224 + (c \div 4096), 128 + ((c \div 64) % 64), 128 + (c % 64) >>
  ELSE << 240 + (c \div 262144), 128 + ((c \div 4096) % 64),
          128 + ((c \div 64) % 64), 128 + (c % 64) >>

\* str.encode(): the UTF-8 form of each code point (the modelled text holds no
\* surrogate, which encode would refuse).
RECURSIVE Encode(_)
Encode(s) == IF s = << >> THEN << >> ELSE EncodeChar(Head(s)) \o Encode(Tail(s))

\* Number of bytes of the UTF-8 form that starts with lead byte b (0: not a lead byte).
SeqLen(b) ==
  IF b < 128 THEN 1
  ELSE IF b >= 192 /\ b < 224 THEN 2
  ELSE IF b >= 224 /\ b < 240 THEN 3
  ELSE IF b >= 240 /\ b < 248 THEN 4
  ELSE 0

DecodeChar(b) ==
  CASE Len(b) = 1 -> b[1]
    [] Len(b) = 2 -> (b[1] - 192) * 64 + (b[2] - 128)
    [] Len(b) = 3 -> (b[1] - 224) * 4096 + (b[2] - 128) * 64 + (b[3] - 128)
    [] OTHER      -> (b[1] - 240) * 262144 + (b[2] - 128) * 4096 + (b[3] - 128) * 64 + (b[4] - 128)

\* b is one well-formed UTF-8 form: continuation bytes in 128..191, no overlong
\* form, no surrogate, nothing above U+10FFFF.
WellFormed(b) ==
  /\ \A i \in 2..Len(b) : b[i] >= 128 /\ b[i] < 192
  /\ Len(b) = 2 => b[1] >= 194
  /\ Len(b) = 3 => /\ b[1] = 224 => b[2] >= 160
                   /\ b[1] = 237 => b[2] < 160
  /\ Len(b) = 4 => /\ b[1] <= 244
                   /\ b[1] = 240 => b[2] >= 144
                   /\ b[1] = 244 => b[2] < 144

\* bytes.decode("utf-8") succeeds on b (it is strict: it raises otherwise).
RECURSIVE Decodable(_)
Decodable(b) ==
  \/ b = << >>
  \/ LET n == SeqLen(Head(b))
     IN /\ n > 0 /\ n <= Len(b)
        /\ WellFormed(SubSeq(b, 1, n))
        /\ Decodable(SubSeq(b, n + 1, Len(b)))

\* bytes.decode("utf-8") of a decodable b.
RECURSIVE Decode(_)
Decode(b) ==
  IF b = << >> THEN << >>
  ELSE LET n == SeqLen(Head(b))
       IN << DecodeChar(SubSeq(b, 1, n)) >> \o Decode(SubSeq(b, n + 1, Len(b)))

-----------------------------------------------------------------------------
(* hashlib.md5(...).hexdigest()                                            *)

\* The MD5 digests, as lower-case hexadecimal text, of the byte strings the
\* modelled URLs encode to (computed with hashlib): md5(b"a"), md5(b"\xc3\xa9").
MD5Hex(b) ==
  CASE b = << 97 >> ->
         \* 0cc175b9c0f1b6a831c399e269772661
         << 48, 99, 99, 49, 55, 53, 98, 57, 99, 48, 102, 49, 98, 54, 97, 56,
            51, 49, 99, 51, 57, 57, 101, 50, 54, 57, 55, 55, 50, 54, 54, 49 >>
    [] b = << 195, 169 >> ->
         \* 66ddcd97cfdeabb2f6fb8a999b4bc76f
         << 54, 54, 100, 100, 99, 100, 57, 55, 99, 102, 100, 101, 97, 98, 98, 50,
            102, 54, 102, 98, 56, 97, 57, 57, 57, 98, 52, 98, 99, 55, 54, 102 >>

\* f"count:{url}": the name of the counter of a URL.
CountName(u) == << 99, 111, 117, 110, 116, 58 >> \o u

\* Variant of sanitize_url: the cache key is built like the name of the counter.
SanitizeAsCountName(u) == CountName(u)

\* Variant of sanitize_url: the digest is taken of a fixed string, every URL has
\* the same cache key.
SanitizeFixed(u) == MD5Hex(<< 97 >>)

\* Variant of sanitize_url: the digest is taken only while the keyspace is
\* empty; afterwards the key is built from the URL as the counter's name is.
SanitizeByStore(u) == IF redis_client = << >> THEN MD5Hex(Encode(u)) ELSE CountName(u)

\* sanitize_url: the cache key of a URL.
sanitize_url(u) == MD5Hex(Encode(u))

-----------------------------------------------------------------------------
(* The Redis commands the wrapper issues.  redis-py sends a str key or     *)
(* value as its UTF-8 bytes.                                               *)

RECURSIVE ParseInt(_)
\* The integer a decimal byte string denotes.
ParseInt(b) == IF b = << >> THEN 0 ELSE 10 * ParseInt(SubSeq(b, 1, Len(b) - 1)) + (b[Len(b)] - 48)

RECURSIVE FormatInt(_)
\* The decimal byte string of a natural number.
FormatInt(n) == IF n < 10 THEN << 48 + n >> ELSE FormatInt(n \div 10) \o << 48 + (n % 10) >>

IsInteger(b) == b # << >> /\ \A i \in 1..Len(b) : b[i] >= 48 /\ b[i] <= 57

Present(db, k) == k \in DOMAIN db

\* db with key k bound to entry e.
Put(db, k, e) == [ x \in (DOMAIN db) \cup {k} |-> IF x = k THEN e ELSE db[x] ]

\* GET key: the value, or None.
RedisGet(db, name) ==
  LET k == Encode(name) IN IF Present(db, k) THEN Some(db[k].val) ELSE None

\* INCR key can be served: the key is absent or holds a decimal integer.
RedisIncrOk(db, name) ==
  LET k == Encode(name) IN Present(db, k) => IsInteger(db[k].val)

\* INCR key: an absent key counts from 0; the expiry of the key is kept.
RedisIncr(db, name) ==
  LET k == Encode(name)
  IN IF Present(db, k)
       THEN Put(db, k, [ val |-> FormatInt(ParseInt(db[k].val) + 1), ttl |-> db[k].ttl ])
       ELSE Put(db, k, [ val |-> FormatInt(1), ttl |-> -1 ])

\* SETEX key seconds value.
RedisSetex(db, name, seconds, value) ==
  Put(db, Encode(name), [ val |-> Encode(value), ttl |-> seconds ])

\* d seconds pass: volatile keys lose d seconds, and those that run out are removed.
RedisExpire(db, d) ==
  LET live == { k \in DOMAIN db : db[k].ttl < 0 \/ db[k].ttl > d }
  IN [ k \in live |-> IF db[k].ttl > d THEN [ db[k] EXCEPT !.ttl = @ - d ] ELSE db[k] ]

\* Variant of Truthy: the test `cached_page is not None`.
TruthyIsNotNone(cached_page) == cached_page # None

\* Python truthiness of the result of GET: None and b"" are falsy.
Truthy(cached_page) == cached_page # None /\ cached_page[1] # << >>

-----------------------------------------------------------------------------
Init ==
  /\ redis_client = << >>
  /\ pc = [ p \in Callers |-> "idle" ]
  /\ url = [ p \in Callers |-> << >> ]
  /\ response = [ p \in Callers |-> None ]
  /\ ret = [ p \in Callers |-> None ]
  /\ exc = [ p \in Callers |-> None ]
  /\ status = [ p \in Callers |-> 0 ]
  /\ invoked = [ p \in Callers |-> 0 ]
  /\ fetched = [ u \in URLs |-> 0 ]
  /\ finished = [ u \in URLs |-> 0 ]
  /\ produced = [ u \in URLs |-> {} ]
  /\ age = [ u \in URLs |-> -1 ]

-----------------------------------------------------------------------------
(* track_get_page.wrapper, one action per command it issues                *)

\* Calls in progress.
InFlight == { p \in Callers : pc[p] \in { "incr", "get", "fetch", "setex" } }

\* The sum of f over S.
RECURSIVE Total(_, _)
Total(f, S) == IF S = {} THEN 0 ELSE LET x == CHOOSE y \in S : TRUE IN f[x] + Total(f, S \ {x})

Raised(type, at) == Some([ type |-> type, at |-> at ])

\* A caller invokes get_page(u): wrapper starts with fresh locals.
Call(p, u) ==
  /\ pc[p] \in { "idle", "returned", "raised" }
  /\ Total(finished, URLs) + Cardinality(InFlight) < MaxCalls
  /\ pc' = [ pc EXCEPT ![p] = "incr" ]
  /\ url' = [ url EXCEPT ![p] = u ]
  /\ response' = [ response EXCEPT ![p] = None ]
  /\ ret' = [ ret EXCEPT ![p] = None ]
  /\ exc' = [ exc EXCEPT ![p] = None ]
  /\ status' = [ status EXCEPT ![p] = 0 ]
  /\ invoked' = [ invoked EXCEPT ![p] = 0 ]
  /\ UNCHANGED << redis_client, fetched, finished, produced, age >>

\* Variant of IncrCount: the request is counted only when the page is cached.
IncrCountOnHit(db, u) ==
  IF Truthy(RedisGet(db, sanitize_url(u))) THEN RedisIncr(db, CountName(u)) ELSE db

\* Variant of IncrCount: a read-modify-write in place of INCR, whose read precedes
\* the writes of the calls that are in progress.
IncrCountStale(db, u) ==
  Put(db, Encode(CountName(u)), [ val |-> FormatInt(finished[u] + 1), ttl |-> -1 ])

\* Variant of IncrCount: the INCR is followed by EXPIRE, the counter lives as
\* long as a cache entry does.
IncrCountExpiring(db, u) ==
  LET k == Encode(CountName(u))
      counted == RedisIncr(db, CountName(u))
  IN Put(counted, k, [ counted[k] EXCEPT !.ttl = CACHE_EXPIRATION ])

\* Line 31: redis_client.incr(f"count:{url}").
IncrCount(db, u) == RedisIncr(db, CountName(u))

\* Variant of Incr: the call goes to its lookup without issuing the INCR.
IncrSkipped(p) ==
  /\ pc[p] = "incr"
  /\ pc' = [ pc EXCEPT ![p] = "get" ]
  /\ UNCHANGED << redis_client, url, response, ret, exc, status, invoked, fetched,
                  finished, produced, age >>

Incr(p) ==
  /\ pc[p] = "incr"
  /\ IF RedisIncrOk(redis_client, CountName(url[p]))
       THEN /\ redis_client' = IncrCount(redis_client, url[p])
            /\ pc' = [ pc EXCEPT ![p] = "get" ]
            /\ UNCHANGED << exc, finished >>
       ELSE \* the key holds something that is no integer: redis answers with an error
            /\ pc' = [ pc EXCEPT ![p] = "raised" ]
            /\ exc' = [ exc EXCEPT ![p] = Raised("ResponseError", "incr") ]
            /\ UNCHANGED << redis_client, finished >>
  /\ UNCHANGED << url, response, ret, status, invoked, fetched, produced, age >>

\* Variant of OnHit: a hit renews the expiry of the entry (EXPIRE).
OnHitRefresh(db, u) ==
  LET k == Encode(sanitize_url(u)) IN Put(db, k, [ db[k] EXCEPT !.ttl = CACHE_EXPIRATION ])

\* Variant of OnHit: a hit removes the expiry of the entry (PERSIST).
OnHitPersist(db, u) ==
  LET k == Encode(sanitize_url(u)) IN Put(db, k, [ db[k] EXCEPT !.ttl = -1 ])

\* Lines 38-39: a hit issues no further command.
OnHit(db, u) == db

\* Variant of Get: single flight, the lookup for a URL waits while another call
\* for the same URL is between its own lookup and its write.
GetSingleFlight(p) ==
  /\ pc[p] = "get"
  /\ ~ \E q \in Callers \ {p} : url[q] = url[p] /\ pc[q] \in { "fetch", "setex" }
  /\ LET cached_page == RedisGet(redis_client, sanitize_url(url[p]))
     IN IF Truthy(cached_page)
          THEN /\ IF Decodable(cached_page[1])
                    THEN /\ ret' = [ ret EXCEPT ![p] = Some(Decode(cached_page[1])) ]
                         /\ pc' = [ pc EXCEPT ![p] = "returned" ]
                         /\ UNCHANGED exc
                    ELSE /\ exc' = [ exc EXCEPT ![p] = Raised("UnicodeDecodeError", "get") ]
                         /\ pc' = [ pc EXCEPT ![p] = "raised" ]
                         /\ UNCHANGED ret
               /\ finished' = [ finished EXCEPT ![url[p]] = @ + 1 ]
          ELSE /\ pc' = [ pc EXCEPT ![p] = "fetch" ]
               /\ UNCHANGED << ret, exc, finished >>
  /\ UNCHANGED << redis_client, url, response, status, invoked, fetched, produced, age >>

\* Lines 34-39: derive the key, look it up, return the decoded page on a hit.
Get(p) ==
  /\ pc[p] = "get"
  /\ LET cache_key == sanitize_url(url[p])
         cached_page == RedisGet(redis_client, cache_key)
     IN IF Truthy(cached_page)
          THEN /\ IF Decodable(cached_page[1])
                    THEN /\ ret' = [ ret EXCEPT ![p] = Some(Decode(cached_page[1])) ]
                         /\ pc' = [ pc EXCEPT ![p] = "returned" ]
                         /\ UNCHANGED exc
                    ELSE /\ exc' = [ exc EXCEPT ![p] = Raised("UnicodeDecodeError", "get") ]
                         /\ pc' = [ pc EXCEPT ![p] = "raised" ]
                         /\ UNCHANGED ret
               /\ redis_client' = OnHit(redis_client, url[p])
               /\ finished' = [ finished EXCEPT ![url[p]] = @ + 1 ]
          ELSE /\ pc' = [ pc EXCEPT ![p] = "fetch" ]
               /\ UNCHANGED << redis_client, ret, exc, finished >>
  /\ UNCHANGED << url, response, status, invoked, fetched, produced, age >>

\* Lines 59-60: requests.get(url) answered; get_page returns response.text
\* whatever the status of the answer.
get_page(r) == Some(r.text)

\* Line 42, fn(url) returns.
Fetch(p) ==
  /\ pc[p] = "fetch"
  /\ \E r \in Responses :
       /\ response' = [ response EXCEPT ![p] = get_page(r) ]
       /\ status' = [ status EXCEPT ![p] = r.status_code ]
       /\ produced' = [ produced EXCEPT ![url[p]] = @ \cup { r.text } ]
  /\ pc' = [ pc EXCEPT ![p] = "setex" ]
  /\ invoked' = [ invoked EXCEPT ![p] = @ + 1 ]
  /\ fetched' = [ fetched EXCEPT ![url[p]] = @ + 1 ]
  /\ UNCHANGED << redis_client, url, ret, exc, finished, age >>

\* Variant of FetchRaises: the exception is caught and the fetch tried again.
FetchRetries(p) ==
  /\ pc[p] = "fetch"
  /\ invoked[p] < 2
  /\ invoked' = [ invoked EXCEPT ![p] = @ + 1 ]
  /\ fetched' = [ fetched EXCEPT ![url[p]] = @ + 1 ]
  /\ UNCHANGED << redis_client, pc, url, response, ret, exc, status, finished, produced, age >>

\* Line 42, fn(url) raises (requests.get: connection error, timeout): wrapper
\* has no handler, the exception leaves it.
FetchRaises(p) ==
  /\ pc[p] = "fetch"
  /\ pc' = [ pc EXCEPT ![p] = "raised" ]
  /\ exc' = [ exc EXCEPT ![p] = Raised("TransportError", "fetch") ]
  /\ invoked' = [ invoked EXCEPT ![p] = @ + 1 ]
  /\ fetched' = [ fetched EXCEPT ![url[p]] = @ + 1 ]
  /\ finished' = [ finished EXCEPT ![url[p]] = @ + 1 ]
  /\ UNCHANGED << redis_client, url, response, ret, status, produced, age >>

\* Variant of StorePage: the page is stored under the URL itself, not under the
\* key the lookup uses.
StorePageRawKey(db, u, page) == RedisSetex(db, u, CACHE_EXPIRATION, page)

\* Variant of StorePage: SET in place of SETEX, the entry never expires.
StorePageNoExpiry(db, u, page) ==
  Put(db, Encode(sanitize_url(u)), [ val |-> Encode(page), ttl |-> -1 ])

\* Variant of StorePage: the expiry is taken in minutes.
StorePageMinutes(db, u, page) == RedisSetex(db, sanitize_url(u), 60 * CACHE_EXPIRATION, page)

\* Variant of StorePage: a cache of one slot, the entries of the other URLs are
\* deleted before the page is stored.
StorePageEvicting(db, u, page) ==
  LET others == { Encode(sanitize_url(v)) : v \in URLs \ {u} }
      kept == [ k \in (DOMAIN db) \ others |-> db[k] ]
  IN RedisSetex(kept, sanitize_url(u), CACHE_EXPIRATION, page)

\* Line 43: redis_client.setex(cache_key, CACHE_EXPIRATION, response).
StorePage(db, u, page) == RedisSetex(db, sanitize_url(u), CACHE_EXPIRATION, page)

\* Lines 43-44: cache the page, return it.
Setex(p) ==
  /\ pc[p] = "setex"
  /\ redis_client' = StorePage(redis_client, url[p], response[p][1])
  /\ ret' = [ ret EXCEPT ![p] = response[p] ]
  /\ pc' = [ pc EXCEPT ![p] = "returned" ]
  /\ finished' = [ finished EXCEPT ![url[p]] = @ + 1 ]
  /\ age' = [ age EXCEPT ![url[p]] = 0 ]
  /\ UNCHANGED << url, response, exc, status, invoked, fetched, produced >>

\* Variant of StoreFails: a failure of the cache write is caught and the fetched
\* page served all the same.
StoreFailsServes(p) ==
  /\ pc[p] \in { "incr", "get", "setex" }
  /\ IF pc[p] = "setex"
       THEN /\ pc' = [ pc EXCEPT ![p] = "returned" ]
            /\ ret' = [ ret EXCEPT ![p] = response[p] ]
            /\ UNCHANGED exc
       ELSE /\ pc' = [ pc EXCEPT ![p] = "raised" ]
            /\ exc' = [ exc EXCEPT ![p] = Raised("StoreUnavailableError", pc[p]) ]
            /\ UNCHANGED ret
  /\ finished' = [ finished EXCEPT ![url[p]] = IF pc[p] = "incr" THEN @ ELSE @ + 1 ]
  /\ UNCHANGED << redis_client, url, response, status, invoked, fetched, produced, age >>

\* Lines 31, 37, 43: the Redis server cannot be reached, the command is not
\* applied; redis-py raises and wrapper has no handler.
StoreFails(p) ==
  /\ pc[p] \in { "incr", "get", "setex" }
  /\ pc' = [ pc EXCEPT ![p] = "raised" ]
  /\ exc' = [ exc EXCEPT ![p] = Raised("StoreUnavailableError", pc[p]) ]
  /\ finished' = [ finished EXCEPT ![url[p]] = IF pc[p] = "incr" THEN @ ELSE @ + 1 ]
  /\ UNCHANGED << redis_client, url, response, ret, status, invoked, fetched, produced, age >>

\* Time passes in the Redis server.  The age of an entry is followed up to the
\* first observation at which it is at least CACHE_EXPIRATION.
Tick ==
  /\ redis_client' = RedisExpire(redis_client, TickSeconds)
  /\ age' = [ u \in URLs |->
               IF age[u] >= 0 /\ age[u] < CACHE_EXPIRATION THEN age[u] + TickSeconds ELSE age[u] ]
  /\ UNCHANGED << pc, url, response, ret, exc, status, invoked, fetched, finished, produced >>

Next ==
  \/ \E p \in Callers, u \in URLs : Call(p, u)
  \/ \E p \in Callers : Incr(p)
  \/ \E p \in Callers : Get(p)
  \/ \E p \in Callers : Fetch(p)
  \/ \E p \in Callers : FetchRaises(p)
  \/ \E p \in Callers : Setex(p)
  \/ \E p \in Callers : StoreFails(p)
  \/ Tick

Spec == Init /\ [][Next]_vars

-----------------------------------------------------------------------------
(* Two calls in immediate succession on a fresh store: caller 1 calls        *)
(* get_page(u); once that call has returned, caller 2 calls get_page(u).   *)
(* Time may pass, but less than CACHE_EXPIRATION since the page was stored.*)

CallFirst(u) == pc[1] = "idle" /\ Call(1, u)

CallSecond == pc[1] = "returned" /\ pc[2] = "idle" /\ Call(2, url[1])

TickWithinTTL == Tick /\ \A u \in URLs : age[u] + TickSeconds < CACHE_EXPIRATION

NextTwice ==
  \/ \E u \in URLs : CallFirst(u)
  \/ CallSecond
  \/ \E p \in { 1, 2 } : Incr(p)
  \/ \E p \in { 1, 2 } : Get(p)
  \/ \E p \in { 1, 2 } : Fetch(p)
  \/ \E p \in { 1, 2 } : FetchRaises(p)
  \/ \E p \in { 1, 2 } : Setex(p)
  \/ \E p \in { 1, 2 } : StoreFails(p)
  \/ TickWithinTTL

SpecTwice == Init /\ [][NextTwice]_vars

-----------------------------------------------------------------------------
(* Properties                                                              *)

\* The Redis keys of the counter and of the cache entry of u, tabulated.
CountKeyOf == [ u \in URLs |-> Encode(CountName(u)) ]
CacheKeyOf == [ u \in URLs |-> Encode(sanitize_url(u)) ]
CountKey(u) == CountKeyOf[u]
CacheKey(u) == CacheKeyOf[u]

\* What GET of the cache key of u returns.
Cached(u) ==
  IF Present(redis_client, CacheKey(u)) THEN Some(redis_client[CacheKey(u)].val) ELSE None

\* Value of the counter of u, 0 when the key is absent.
Counter(u) ==
  IF Present(redis_client, CountKey(u)) THEN ParseInt(redis_client[CountKey(u)].val) ELSE 0

\* Calls for u that are past their INCR and have not ended.
Counted(u) == { p \in InFlight : url[p] = u /\ pc[p] # "incr" }

\* p takes a step of its call.
Moves(p) == pc'[p] # pc[p]

\* C1: every call of get_page(u) raises the counter of u by exactly 1, whether
\* it ends as a hit or as a miss: the INCR step of a call adds 1 to the counter
\* of its URL, no later step of a call (lookup, hit, fetch, SETEX, return)
\* changes any counter, and after every step that leaves no call in progress
\* the counter of u is the number of calls for u that ended after their INCR.
C1_EachCallCountsOnce ==
  [][/\ \A p \in Callers :
          /\ (pc[p] = "incr" /\ pc'[p] = "get") =>
               /\ Counter(url[p])' = Counter(url[p]) + 1
               /\ \A v \in URLs \ {url[p]} : Counter(v)' = Counter(v)
          /\ (pc[p] \in { "get", "fetch", "setex" } /\ Moves(p)) =>
               \A v \in URLs : Counter(v)' = Counter(v)
     /\ InFlight' = {} => \A u \in URLs : Counter(u)' = finished'[u]]_vars

\* Witness of C1: two calls for one URL have returned, one as a miss and one as
\* a hit, and the counter of the URL is 2.
C1_Witness ==
  \E u \in URLs :
    /\ \A p \in Callers : pc[p] = "returned" /\ url[p] = u
    /\ \E p, q \in Callers : invoked[p] = 1 /\ invoked[q] = 0
    /\ Counter(u) = 2

\* Both calls of the two-call scenario have returned.
BothReturned == pc[1] = "returned" /\ pc[2] = "returned"

\* C2 as stated: on a fresh store, two calls get_page(u) in immediate succession
\* invoke the page fetcher exactly once and return the same content, whatever
\* content the fetcher returns.
C2_TwiceFetchesOnce_AnyContent ==
  BothReturned => /\ fetched[url[1]] = 1
                  /\ ret[2] = ret[1]

\* C2, amended: on a fresh store, two calls get_page(u) in immediate succession,
\* the first of which returns a non-empty page, invoke the page fetcher exactly
\* once, in the first call, and return the same content.
C2_TwiceFetchesOnce ==
  (BothReturned /\ ret[1] # Some(<< >>)) =>
     /\ fetched[url[1]] = 1
     /\ invoked[1] = 1 /\ invoked[2] = 0
     /\ ret[2] = ret[1]

\* Witness of C2: both calls have returned "hi", and the second did not fetch.
C2_Witness ==
  /\ BothReturned
  /\ ret[1] = Some(<< 104, 105 >>) /\ ret[2] = Some(<< 104, 105 >>)
  /\ invoked[2] = 0 /\ age[url[1]] > 0

\* Every key other than k is bound alike in db1 and db2.
SameExcept(db1, db2, k) ==
  /\ (DOMAIN db1) \ {k} = (DOMAIN db2) \ {k}
  /\ \A x \in (DOMAIN db1) \ {k} : db1[x] = db2[x]

\* C3: after every step, if CACHE_EXPIRATION seconds have passed since the last
\* write of the cache entry of u, the cache key is absent; a lookup made then finds nothing
\* and goes on to the page fetcher; and a call that found nothing and fetched
\* has, when it returns, invoked the fetcher exactly once, returns the content
\* just fetched and leaves the cache entry holding that content.
C3_ExpiryThenRefetch ==
  [][/\ \A u \in URLs : age'[u] >= CACHE_EXPIRATION => Cached(u)' = None
     /\ \A p \in Callers :
          /\ (pc[p] = "get" /\ Moves(p) /\ pc'[p] # "raised" /\ age[url[p]] >= CACHE_EXPIRATION)
               => pc'[p] = "fetch"
          /\ (pc[p] = "fetch" /\ Moves(p)) => invoked'[p] = 1
          /\ (pc[p] = "setex" /\ pc'[p] = "returned") =>
               /\ invoked'[p] = 1
               /\ ret'[p] = response[p]
               /\ Cached(url[p])' # None
               /\ Decode(Cached(url[p])'[1]) = response[p][1]
               /\ age'[url[p]] = 0]_vars

\* Witness of C3: the entry written by a call that returned "hi" has expired,
\* and another call for the same URL has found the key absent and is fetching.
C3_Witness ==
  \E p, q \in Callers :
    /\ pc[q] = "returned" /\ invoked[q] = 1 /\ ret[q] = Some(<< 104, 105 >>)
    /\ url[p] = url[q] /\ pc[p] = "fetch"
    /\ age[url[p]] >= CACHE_EXPIRATION /\ Cached(url[p]) = None
    /\ fetched[url[p]] = 1

\* C4: a call that ends as a hit returns the decoded stored value, invokes no
\* page fetcher and writes nothing: the keyspace (values and remaining
\* time-to-live of every entry) is the same after the lookup as before; and the
\* INCR step that preceded it changed nothing but the counter of the URL.
C4_HitWritesNothing ==
  [][\A p \in Callers :
       /\ (pc[p] = "get" /\ pc'[p] = "returned") =>
            /\ Truthy(Cached(url[p]))
            /\ ret'[p] = Some(Decode(Cached(url[p])[1]))
            /\ redis_client' = redis_client
            /\ fetched' = fetched /\ invoked'[p] = 0
            /\ exc'[p] = None
       /\ (pc[p] = "incr" /\ Moves(p)) =>
            SameExcept(redis_client, redis_client', CountKey(url[p]))]_vars

\* Witness of C4: a call has returned "é" from the cache, without a fetch, while
\* the entry had less than its full time-to-live left, and the entry still has.
C4_Witness ==
  \E p \in Callers :
    /\ pc[p] = "returned" /\ invoked[p] = 0 /\ ret[p] = Some(<< 233 >>)
    /\ Present(redis_client, CacheKey(url[p]))
    /\ redis_client[CacheKey(url[p])].ttl < CACHE_EXPIRATION
    /\ fetched[url[p]] = 1 /\ Counter(url[p]) = 2

\* The SETEX step of a miss binds the cache key of the URL to the UTF-8 bytes of
\* the fetched content with CACHE_EXPIRATION seconds to live, whatever the URL,
\* leaves every other key as it was, and the call returns the fetched content.
MissStores ==
  \A p \in Callers :
    (pc[p] = "setex" /\ pc'[p] = "returned") =>
       /\ Present(redis_client', CacheKey(url[p]))
       /\ redis_client'[CacheKey(url[p])] =
            [ val |-> Encode(response[p][1]), ttl |-> CACHE_EXPIRATION ]
       /\ SameExcept(redis_client, redis_client', CacheKey(url[p]))
       /\ ret'[p] = response[p]

\* C5 as stated: a miss stores the fetched content under the cache key with
\* CACHE_EXPIRATION seconds to live and returns it, and from then on a lookup of
\* the key yields that content until the time-to-live has run out.
C5_MissStores_KeptUntilExpiry ==
  [][/\ MissStores
     /\ \A u \in URLs :
          LET k == CacheKey(u)
          IN Present(redis_client, k) =>
               IF Present(redis_client', k)
                 THEN redis_client'[k].val = redis_client[k].val
                 ELSE redis_client[k].ttl <= TickSeconds]_vars

\* C5, amended: a miss stores the fetched content under the cache key with
\* CACHE_EXPIRATION seconds to live, whatever the URL, touching no other key,
\* and returns it; from then on a lookup of the key yields that content until
\* the time-to-live has run out or the SETEX of a later miss for the same URL
\* replaces it; nothing else makes an entry appear, change or live longer.
C5_MissStoresWithGlobalTTL ==
  [][/\ MissStores
     /\ \A u \in URLs :
          LET k == CacheKey(u)
              written == \E p \in Callers : pc[p] = "setex" /\ pc'[p] = "returned" /\ url[p] = u
          IN /\ (Present(redis_client, k) /\ ~written) =>
                  IF Present(redis_client', k)
                    THEN /\ redis_client'[k].val = redis_client[k].val
                         /\ redis_client'[k].ttl <= redis_client[k].ttl
                    ELSE redis_client[k].ttl <= TickSeconds
             /\ (~Present(redis_client, k) /\ Present(redis_client', k)) => written]_vars

\* Witness of C5: a miss has returned "hi" and the cache key holds its bytes
\* with the full time-to-live, while the entry of the other URL, stored
\* earlier, is still there with less.
C5_Witness ==
  \E p \in Callers : \E v \in URLs \ {url[p]} :
    /\ pc[p] = "returned" /\ invoked[p] = 1 /\ ret[p] = Some(<< 104, 105 >>)
    /\ Present(redis_client, CacheKey(url[p]))
    /\ redis_client[CacheKey(url[p])] = [ val |-> << 104, 105 >>, ttl |-> CACHE_EXPIRATION ]
    /\ Present(redis_client, CacheKey(v))
    /\ redis_client[CacheKey(v)].ttl < CACHE_EXPIRATION

\* C6: when the page fetcher fails, the call ends with that failure: the
\* fetcher has been invoked once in the call and is never invoked a second
\* time, nothing is returned, the keyspace is as it was before the failure (no
\* cache entry made or changed, the counter of the URL, already raised, kept),
\* and the caller's next step can only be a new call.
C6_FetchFailurePropagates ==
  [][\A p \in Callers :
       /\ (pc[p] = "fetch" /\ pc'[p] = "raised") =>
            /\ exc'[p] = Raised("TransportError", "fetch")
            /\ ret'[p] = None
            /\ invoked'[p] = 1
            /\ redis_client' = redis_client
            /\ Counter(url[p])' >= 1
       /\ invoked'[p] <= 1
       /\ (pc[p] = "fetch" /\ Moves(p)) => pc'[p] \in { "setex", "raised" }
       /\ (pc[p] = "raised" /\ Moves(p)) => (pc'[p] = "incr" /\ invoked'[p] = 0)]_vars

\* Witness of C6: a first call for a URL has ended with the fetcher's failure;
\* the counter of the URL is 1 and its cache key is absent.
C6_Witness ==
  \E p \in Callers :
    /\ pc[p] = "raised" /\ exc[p] = Raised("TransportError", "fetch")
    /\ invoked[p] = 1 /\ ret[p] = None
    /\ Counter(url[p]) = 1 /\ Cached(url[p]) = None

\* C7 as stated: when the server answers with a non-success status, the call
\* does not return normally and the body of the answer is not stored in the cache.
C7_NonSuccessNotCached ==
  \A p \in Callers :
    status[p] >= 400 =>
      /\ pc[p] # "returned"
      /\ Cached(url[p]) # Some(Encode(response[p][1]))

\* C8: with any number of calls in progress at once, no increment is lost: the
\* counter of u is the number of calls for u that ended after their INCR plus
\* the number of calls for u in progress that are past their INCR.
C8_NoLostIncrement ==
  \A u \in URLs : Counter(u) = finished[u] + Cardinality(Counted(u))

\* Witness of C8: every caller is in a call for the same URL and past its INCR
\* at the same time, and the counter is the number of callers.
C8_Witness ==
  \E u \in URLs :
    /\ Counted(u) = Callers
    /\ finished[u] = 0
    /\ Counter(u) = NumCallers

\* C9: a call whose Redis command fails ends with that error, with the
\* keyspace and the fetch count as they were and nothing returned; if the
\* failed command is the INCR or the lookup the call has invoked no fetcher.
\* A call goes past its INCR only with the counter raised, reaches the fetcher
\* only from a lookup, and returns fetched content only with the content
\* written to the cache.
C9_StoreFailureAborts ==
  [][\A p \in Callers :
       /\ (pc[p] \in { "incr", "get", "setex" } /\ pc'[p] = "raised") =>
            /\ exc'[p] = Raised("StoreUnavailableError", pc[p])
            /\ ret'[p] = None
            /\ redis_client' = redis_client
            /\ fetched' = fetched
            /\ pc[p] \in { "incr", "get" } => (invoked'[p] = 0 /\ response'[p] = None)
       /\ (pc[p] = "incr" /\ Moves(p) /\ pc'[p] # "raised") =>
            (pc'[p] = "get" /\ Counter(url[p])' = Counter(url[p]) + 1)
       /\ (pc'[p] = "fetch" /\ Moves(p)) => pc[p] = "get"
       /\ (invoked'[p] > invoked[p]) => pc[p] = "fetch"
       /\ (pc[p] = "setex" /\ Moves(p) /\ pc'[p] # "raised") =>
            /\ pc'[p] = "returned"
            /\ Cached(url[p])' = Some(Encode(ret'[p][1]))
            /\ age'[url[p]] = 0]_vars

\* Witness of C9: the cache write of a call that fetched "hi" has failed; the
\* call has raised, returned nothing, and the cache key is absent.
C9_Witness ==
  \E p \in Callers :
    /\ pc[p] = "raised" /\ exc[p] = Raised("StoreUnavailableError", "setex")
    /\ response[p] = Some(<< 104, 105 >>) /\ ret[p] = None
    /\ Cached(url[p]) = None /\ Counter(url[p]) = 1

HexDigit(c) == c \in 48..57 \/ c \in 97..102

\* The stored forms of the page bodies.
StoredBodies == { Encode(r.text) : r \in Responses }

\* C10: the key of the counter of u is never the cache key of v: a cache key
\* is 32 hexadecimal digits, a counter key starts with "count:".  Every key of
\* the keyspace is either a counter key, holding a positive decimal integer
\* with no expiry, or a cache key, holding the bytes of a fetched page with an
\* expiry of at most CACHE_EXPIRATION seconds, and never both.
C10_KeySpacesDisjoint ==
  /\ \A u, v \in URLs : CountKey(u) # CacheKey(v)
  /\ \A v \in URLs :
       /\ Len(sanitize_url(v)) = 32
       /\ \A i \in 1..Len(sanitize_url(v)) : HexDigit(sanitize_url(v)[i])
  /\ \A u \in URLs : SubSeq(CountName(u), 1, 6) = << 99, 111, 117, 110, 116, 58 >>
  /\ \A k \in DOMAIN redis_client :
       LET e == redis_client[k]
           counter == \E u \in URLs : k = CountKey(u)
           page == \E v \in URLs : k = CacheKey(v)
       IN /\ counter \/ page
          /\ counter => (IsInteger(e.val) /\ ParseInt(e.val) >= 1 /\ e.ttl = -1)
          /\ page => (e.val \in StoredBodies /\ e.ttl \in 1..CACHE_EXPIRATION)

\* Witness of C10: the counter and the cache entry of one URL are both stored,
\* under different keys.
C10_Witness ==
  \E u \in URLs :
    /\ Present(redis_client, CountKey(u)) /\ Present(redis_client, CacheKey(u))
    /\ redis_client[CountKey(u)].val = << 49 >>
    /\ redis_client[CacheKey(u)].val = << 195, 169 >>

C12_EmptyEntryIsMiss ==
  [][\A p \in Callers :
       /\ (pc[p] = "get" /\ Moves(p) /\ pc'[p] # "raised" /\ Cached(url[p]) = Some(<< >>)) =>
            /\ pc'[p] = "fetch"
            /\ ret'[p] = None
            /\ redis_client' = redis_client
       /\ (pc[p] = "fetch" /\ Moves(p)) =>
            /\ invoked'[p] = 1
            /\ fetched'[url[p]] = fetched[url[p]] + 1
       /\ (pc[p] = "setex" /\ pc'[p] = "returned") =>
            /\ redis_client'[CacheKey(url[p])] =
                 [ val |-> Encode(response[p][1]), ttl |-> CACHE_EXPIRATION ]
            /\ ret'[p] = response[p]]_vars

\* Witness of C12: the first call fetched and returned ""; the second call,
\* made after it within the time-to-live, fetched again and returned "hi", and
\* the entry holds "hi" with the full time-to-live.
C12_Witness ==
  /\ BothReturned
  /\ ret[1] = Some(<< >>) /\ invoked[1] = 1
  /\ ret[2] = Some(<< 104, 105 >>) /\ invoked[2] = 1
  /\ produced[url[1]] = { << >>, << 104, 105 >> }
  /\ redis_client[CacheKey(url[1])] = [ val |-> << 104, 105 >>, ttl |-> CACHE_EXPIRATION ]

\* C13: calls for one URL are not de-duplicated: in every reachable state, a
\* call at its lookup whose key is absent (or bound to the empty value) can go
\* on to the page fetcher although another call for the same URL is at the
\* fetcher or about to write the entry, and a call at the page fetcher can
\* invoke it, adding one to the fetches of its URL, whatever the other callers
\* are doing.  So two callers can both find the key absent, both fetch and both
\* write within one time-to-live.
C13_NoDeduplication ==
  \A p \in Callers :
    /\ \A q \in Callers \ {p} :
         (pc[p] = "get" /\ url[q] = url[p] /\ pc[q] \in { "fetch", "setex" }
            /\ ~ Truthy(Cached(url[p])))
           => ENABLED (Get(p) /\ pc'[p] = "fetch")
    /\ pc[p] = "fetch" => ENABLED (Fetch(p) /\ fetched'[url[p]] = fetched[url[p]] + 1)

\* Witness of C13: two callers found the key of one URL absent and both
\* invoked the page fetcher; one has written "hi" and returned, its entry has
\* not expired, and the other is about to write the entry a second time.
C13_Witness ==
  \E p, q \in Callers :
    /\ p # q /\ url[p] = url[q]
    /\ pc[p] = "returned" /\ invoked[p] = 1 /\ ret[p] = Some(<< 104, 105 >>)
    /\ Cached(url[p]) = Some(<< 104, 105 >>) /\ age[url[p]] < CACHE_EXPIRATION
    /\ pc[q] = "setex" /\ invoked[q] = 1
    /\ fetched[url[p]] = 2
    /\ ENABLED Setex(q)

\* C14: across every step of every execution (a step of a call that hits,
\* misses or fails, or the passing of time that expires cache entries) the
\* counter of each URL after the step is at least what it was before; a counter
\* key that is present stays present and has no expiry; and the passing of time
\* (the one step in which no call moves) leaves every counter as it was.
C14_CounterNeverDecreases ==
  [][\A u \in URLs :
       LET k == CountKey(u)
       IN /\ Present(redis_client, k) => Present(redis_client', k)
          /\ Present(redis_client', k) =>
               /\ redis_client'[k].ttl = -1
               /\ \/ Present(redis_client, k) /\ redis_client'[k] = redis_client[k]
                  \/ /\ Counter(u)' >= Counter(u)
                     /\ \E p \in Callers : Moves(p)]_vars

\* Witness of C14: a URL was requested twice; one call missed and stored its
\* page, the other ended with the fetcher's failure; the cache entry has
\* expired, and the counter is still 2, with no expiry.
C14_Witness ==
  \E p, q \in Callers :
    /\ url[p] = url[q]
    /\ pc[q] = "returned" /\ invoked[q] = 1
    /\ pc[p] = "raised" /\ exc[p] = Raised("TransportError", "fetch")
    /\ age[url[p]] >= CACHE_EXPIRATION /\ Cached(url[p]) = None
    /\ Counter(url[p]) = 2 /\ redis_client[CountKey(url[p])].ttl = -1

\* C15: every value a call get_page(u) has returned is a content the page
\* fetcher returned for u, in that call or in another call for u; and the
\* cache entry of u, from which hits are served, always holds the stored form
\* of a content the fetcher returned for u.
C15_ReturnsFetchedContent ==
  /\ \A p \in Callers :
       pc[p] = "returned" => (ret[p] # None /\ ret[p][1] \in produced[url[p]])
  /\ \A u \in URLs :
       Present(redis_client, CacheKey(u)) =>
         \E t \in produced[u] : redis_client[CacheKey(u)].val = Encode(t)

\* Witness of C15: a call has returned "é" from the cache without fetching;
\* "é" is what the one fetch made for its URL returned, in an earlier call, and
\* nothing was fetched for the other URL.
C15_Witness ==
  \E p \in Callers :
    /\ pc[p] = "returned" /\ invoked[p] = 0 /\ ret[p] = Some(<< 233 >>)
    /\ produced[url[p]] = { << 233 >> }
    /\ \A v \in URLs \ {url[p]} : produced[v] = {}

\* C16: in every reachable state, with any number of calls in progress and
\* whatever has failed, the page fetcher has been invoked for u at most as
\* often as the counter of u says; more precisely, the invocations made for u
\* plus the calls for u that are at their lookup or at the fetcher, not having
\* invoked it yet, are at most the counter of u: a call is counted before it
\* looks up the cache or invokes the fetcher.
C16_FetchesAtMostCounter ==
  \A u \in URLs :
    /\ fetched[u] <= Counter(u)
    /\ fetched[u] + Cardinality({ p \in Callers : url[p] = u /\ pc[p] \in { "get", "fetch" } })
         <= Counter(u)

\* Witness of C16: two calls for one URL both invoked the page fetcher, one
\* of them ending with the fetcher's failure; the fetcher has been invoked
\* twice for the URL and the counter is 2.
C16_Witness ==
  \E u \in URLs :
    /\ fetched[u] = 2 /\ Counter(u) = 2
    /\ \E p \in Callers : url[p] = u /\ exc[p] = Raised("TransportError", "fetch")
    /\ \E q \in Callers : url[q] = u /\ pc[q] = "setex"

\* What is stored under key k: the entry (value and seconds to live), or None.
Entry(db, k) == IF Present(db, k) THEN Some(db[k]) ELSE None

\* C17: a step of a call get_page(u), whatever the call's outcome (hit, miss,
\* failure of the fetcher or of Redis), leaves the counter and the cache entry
\* (value and remaining time-to-live) of every other URL v whose cache key is
\* not that of u as they were.
C17_OtherURLsUntouched ==
  [][\A p \in Callers :
       Moves(p) =>
         \/ redis_client' = redis_client
         \/ \A v \in URLs \ {url'[p]} :
              CacheKey(v) # CacheKey(url'[p]) =>
                /\ Entry(redis_client', CountKey(v)) = Entry(redis_client, CountKey(v))
                /\ Entry(redis_client', CacheKey(v)) = Entry(redis_client, CacheKey(v))]_vars

\* Witness of C17: a call for one URL has gone through INCR, lookup and the
\* page fetcher and ended with the fetcher's failure, while the other URL has
\* its counter at 1 and its cache entry, stored 5 seconds ago, with 5 seconds
\* left to live.
C17_Witness ==
  \E p \in Callers : \E v \in URLs \ {url[p]} :
    /\ pc[p] = "raised" /\ exc[p] = Raised("TransportError", "fetch")
    /\ Counter(url[p]) = 1 /\ Cached(url[p]) = None
    /\ Counter(v) = 1
    /\ Entry(redis_client, CacheKey(v)) =
         Some([ val |-> << 104, 105 >>, ttl |-> CACHE_EXPIRATION - TickSeconds ])
    /\ age[v] = TickSeconds

\* C18: a call that returns a cached value returns the value the last SETEX
\* of a miss for its URL wrote, and that write was made less than
\* CACHE_EXPIRATION seconds before the lookup; after every step, a cache entry
\* that is present has CACHE_EXPIRATION seconds less the time since its last
\* SETEX left to live, so that no hit, and nothing but the SETEX of a miss,
\* has set or extended its expiry.
C18_HitServesWithinTTL ==
  [][/\ \A p \in Callers :
          (pc[p] = "get" /\ pc'[p] = "returned") =>
             /\ age[url[p]] >= 0 /\ age[url[p]] < CACHE_EXPIRATION
             /\ ret'[p][1] \in produced[url[p]]
             /\ redis_client[CacheKey(url[p])].val = Encode(ret'[p][1])
     /\ \A u \in URLs :
          Present(redis_client', CacheKey(u)) =>
             /\ age'[u] >= 0
             /\ redis_client'[CacheKey(u)].ttl = CACHE_EXPIRATION - age'[u]]_vars

\* Witness of C18: a call has returned "hi" from the cache 5 seconds after the
\* miss of another call for the URL wrote it; the entry has 5 seconds left.
C18_Witness ==
  \E p, q \in Callers :
    /\ url[p] = url[q]
    /\ pc[q] = "returned" /\ invoked[q] = 1 /\ response[q] = Some(<< 104, 105 >>)
    /\ pc[p] = "returned" /\ invoked[p] = 0 /\ ret[p] = Some(<< 104, 105 >>)
    /\ age[url[p]] = TickSeconds
    /\ redis_client[CacheKey(url[p])].ttl = CACHE_EXPIRATION - TickSeconds

=============================================================================
